---------------------------- MODULE Spec2Model ----------------------------
(***************************************************************************)
(* A model of src/json_object.c (rejson): CreateNodeFromJSON drives the    *)
(* jsonsl tokenizer through a stack of in-progress nodes, and              *)
(* SerializeNodeToJSON renders a tree back to text.                        *)
(*                                                                         *)
(* Text is a sequence of bytes.  A byte is written as a one-character      *)
(* string; the bytes with no printable form carry a label ("<01>").        *)
(* 64-bit integers are kept as decimal numerals (sign and digits), so the  *)
(* boundary 2^63 is compared exactly; doubles are kept as normalised       *)
(* decimals (sign, digits, power of ten).                                  *)
(***************************************************************************)
EXTENDS Integers, Sequences, FiniteSets, TLC

(***************************************************************************)
(* Bounds of the model.                                                    *)
(***************************************************************************)
\* the number of input fragments an input text is made of
MaxTokens == 3
\* the jsonsl nesting limit handed to jsonsl_new and the size of the node
\* stack (the library's value is 512; the model keeps the code's relation
\* between the two, which are the same variable `levels`)
JSONSL_MAX_LEVELS == 5

(***************************************************************************)
(* Bytes.                                                                  *)
(***************************************************************************)
NUL == "<00>"
SOH == "<01>"
BS  == "<08>"
DEL == "<7f>"

\* every byte value, in code order from 0
ByteTable ==
  <<
     NUL, SOH, "<02>", "<03>", "<04>", "<05>", "<06>", "<07>", BS, "\t", "\n", "<0b>", "\f", "\r", "<0e>", "<0f>",
     "<10>", "<11>", "<12>", "<13>", "<14>", "<15>", "<16>", "<17>", "<18>", "<19>", "<1a>", "<1b>", "<1c>", "<1d>", "<1e>", "<1f>",
     " ", "!", "\"", "#", "$", "%", "&", "'", "(", ")", "*", "+", ",", "-", ".", "/",
     "0", "1", "2", "3", "4", "5", "6", "7", "8", "9", ":", ";", "<", "=", ">", "?",
     "@", "A", "B", "C", "D", "E", "F", "G", "H", "I", "J", "K", "L", "M", "N", "O",
     "P", "Q", "R", "S", "T", "U", "V", "W", "X", "Y", "Z", "[", "\\", "]", "^", "_",
     "<60>", "a", "b", "c", "d", "e", "f", "g", "h", "i", "j", "k", "l", "m", "n", "o",
     "p", "q", "r", "s", "t", "u", "v", "w", "x", "y", "z", "{", "|", "}", "~", DEL,
     "<80>", "<81>", "<82>", "<83>", "<84>", "<85>", "<86>", "<87>", "<88>", "<89>", "<8a>", "<8b>", "<8c>", "<8d>", "<8e>", "<8f>",
     "<90>", "<91>", "<92>", "<93>", "<94>", "<95>", "<96>", "<97>", "<98>", "<99>", "<9a>", "<9b>", "<9c>", "<9d>", "<9e>", "<9f>",
     "<a0>", "<a1>", "<a2>", "<a3>", "<a4>", "<a5>", "<a6>", "<a7>", "<a8>", "<a9>", "<aa>", "<ab>", "<ac>", "<ad>", "<ae>", "<af>",
     "<b0>", "<b1>", "<b2>", "<b3>", "<b4>", "<b5>", "<b6>", "<b7>", "<b8>", "<b9>", "<ba>", "<bb>", "<bc>", "<bd>", "<be>", "<bf>",
     "<c0>", "<c1>", "<c2>", "<c3>", "<c4>", "<c5>", "<c6>", "<c7>", "<c8>", "<c9>", "<ca>", "<cb>", "<cc>", "<cd>", "<ce>", "<cf>",
     "<d0>", "<d1>", "<d2>", "<d3>", "<d4>", "<d5>", "<d6>", "<d7>", "<d8>", "<d9>", "<da>", "<db>", "<dc>", "<dd>", "<de>", "<df>",
     "<e0>", "<e1>", "<e2>", "<e3>", "<e4>", "<e5>", "<e6>", "<e7>", "<e8>", "<e9>", "<ea>", "<eb>", "<ec>", "<ed>", "<ee>", "<ef>",
     "<f0>", "<f1>", "<f2>", "<f3>", "<f4>", "<f5>", "<f6>", "<f7>", "<f8>", "<f9>", "<fa>", "<fb>", "<fc>", "<fd>", "<fe>", "<ff>" >>

Byte == { ByteTable[i] : i \in 1..Len(ByteTable) }

\* the numeric code of a byte
CodeOf == [ b \in Byte |-> (CHOOSE i \in 1..Len(ByteTable) : ByteTable[i] = b) - 1 ]

Chr(n) == ByteTable[n + 1]

Digit == { "0", "1", "2", "3", "4", "5", "6", "7", "8", "9" }

HexDigits == << "0", "1", "2", "3", "4", "5", "6", "7", "8", "9", "a", "b", "c", "d", "e", "f" >>

IsDigit(c) == c \in Digit

DigitVal(c) ==
  CASE c = "0" -> 0 [] c = "1" -> 1 [] c = "2" -> 2 [] c = "3" -> 3 [] c = "4" -> 4
    [] c = "5" -> 5 [] c = "6" -> 6 [] c = "7" -> 7 [] c = "8" -> 8 [] c = "9" -> 9

\* the bytes below 0x20
ControlBytes ==
  { NUL, SOH, "<02>", "<03>", "<04>", "<05>", "<06>", "<07>", BS, "\t", "\n", "<0b>",
    "\f", "\r", "<0e>", "<0f>", "<10>", "<11>", "<12>", "<13>", "<14>", "<15>",
    "<16>", "<17>", "<18>", "<19>", "<1a>", "<1b>", "<1c>", "<1d>", "<1e>", "<1f>" }

\* isprint() in the C locale
IsPrint(c) == CodeOf[c] >= 32 /\ CodeOf[c] <= 126

\* _AllowedWhitespace / _IsAllowedWhitespace: tab, LF, CR, space
_IsAllowedWhitespace(c) == c = " " \/ c \in { "\t", "\n", "\r" }

\* _AllowedEscapes: the escape bytes popCallback asks the unescaper to replace
_AllowedEscapes == { "\"", "/", "\\", "b", "f", "n", "r", "t", "u" }


(***************************************************************************)
(* Sequences.                                                              *)
(***************************************************************************)
RECURSIVE Concat(_)
\* the concatenation of a sequence of sequences
Concat(ss) == IF ss = << >> THEN << >> ELSE Head(ss) \o Concat(Tail(ss))

\* the bytes of buf from 0-based index `from`, `n` of them
Slice(buf, from, n) == SubSeq(buf, from + 1, from + n)

RECURSIVE RunLen(_, _, _)
\* how many consecutive bytes of buf, from 1-based index i on, are in set S
RunLen(buf, i, S) ==
  IF i <= Len(buf) /\ buf[i] \in S THEN 1 + RunLen(buf, i + 1, S) ELSE 0

(***************************************************************************)
(* Decimal numerals: the values of long long and double.                   *)
(***************************************************************************)
RECURSIVE StripLeadingZeros(_)
StripLeadingZeros(ds) ==
  IF Len(ds) > 1 /\ Head(ds) = "0" THEN StripLeadingZeros(Tail(ds)) ELSE ds

RECURSIVE StripTrailingZeros(_)
StripTrailingZeros(ds) ==
  IF Len(ds) > 1 /\ ds[Len(ds)] = "0"
  THEN StripTrailingZeros(SubSeq(ds, 1, Len(ds) - 1)) ELSE ds

RECURSIVE LexLess(_, _)
\* digit strings compared as decimal fractions 0.d1d2... (a shorter string
\* is padded with zeros)
LexLess(a, b) ==
  IF b = << >> THEN FALSE
  ELSE IF a = << >> THEN \E i \in 1..Len(b) : b[i] # "0"
  ELSE IF Head(a) # Head(b) THEN DigitVal(Head(a)) < DigitVal(Head(b))
  ELSE LexLess(Tail(a), Tail(b))

\* a < b for magnitudes without leading zeros
MagLess(a, b) == Len(a) < Len(b) \/ (Len(a) = Len(b) /\ LexLess(a, b))

RECURSIVE DigitsToNat(_)
\* the value of a short digit string (exponents, hex-free)
DigitsToNat(ds) ==
  IF ds = << >> THEN 0
  ELSE 10 * DigitsToNat(SubSeq(ds, 1, Len(ds) - 1)) + DigitVal(ds[Len(ds)])

RECURSIVE NatToDigits(_)
NatToDigits(n) ==
  IF n < 10 THEN << HexDigits[n + 1] >>
  ELSE NatToDigits(n \div 10) \o << HexDigits[(n % 10) + 1] >>

\* LLONG_MAX = 2^63 - 1 and -LLONG_MIN = 2^63
LLONG_MAX_MAG ==
  << "9","2","2","3","3","7","2","0","3","6","8","5","4","7","7","5","8","0","7" >>
LLONG_MIN_MAG ==
  << "9","2","2","3","3","7","2","0","3","6","8","5","4","7","7","5","8","0","8" >>

\* a long long value: sign and magnitude; zero is never negative
IntVal(neg, mag) ==
  LET m == StripLeadingZeros(mag)
  IN  [ neg |-> neg /\ m # << "0" >>, mag |-> m ]

\* the optional sign of a numeral at 1-based index p, and where its digits
\* start
NumSign(buf, p) ==
  LET hasSign == p <= Len(buf) /\ buf[p] \in { "-", "+" }
  IN  [ neg |-> hasSign /\ buf[p] = "-", d0 |-> IF hasSign THEN p + 1 ELSE p ]

\* the conversion of a run of n digits at d0 under sign neg
LLOfDigits(buf, p, neg, d0, n, mag) ==
  IF n = 0
  THEN [ value |-> IntVal(FALSE, << "0" >>), eptr |-> p, erange |-> FALSE ]
  ELSE IF (IF neg THEN MagLess(LLONG_MIN_MAG, mag) ELSE MagLess(LLONG_MAX_MAG, mag))
  THEN [ value |-> IF neg THEN IntVal(TRUE, LLONG_MIN_MAG)
                          ELSE IntVal(FALSE, LLONG_MAX_MAG),
         eptr |-> d0 + n, erange |-> TRUE ]
  ELSE [ value |-> IntVal(neg, mag), eptr |-> d0 + n, erange |-> FALSE ]

LLOfRun(buf, p, neg, d0, n) ==
  LLOfDigits(buf, p, neg, d0, n, StripLeadingZeros(SubSeq(buf, d0, d0 + n - 1)))

LLOfSign(buf, p, s) == LLOfRun(buf, p, s.neg, s.d0, RunLen(buf, s.d0, Digit))

\* strtoll(pos, &eptr, 10) on buf from 1-based index p: optional sign, the
\* longest run of digits; out of range gives LLONG_MAX/LLONG_MIN and ERANGE;
\* no digits gives 0 and eptr = pos
StrToLL(buf, p) == LLOfSign(buf, p, NumSign(buf, p))

\* the leading digits of DBL_MAX = 1.7976931348623157e308 and of half the
\* least denormal, 2.4703282292062327e-324
DBL_MAX_DIGITS ==
  << "1","7","9","7","6","9","3","1","3","4","8","6","2","3","1","5","7" >>
DBL_TINY_DIGITS ==
  << "2","4","7","0","3","2","8","2","2","9","2","0","6","2","3","2","7" >>

\* a double as a normalised decimal: mag has no leading or trailing zero
\* (zero is "0" with exp 0) and the value is (-1)^neg * mag * 10^exp.  Two
\* numerals of at most 15 significant digits are the same double exactly when
\* they are the same normalised decimal.
DblVal(neg, digits, exp) ==
  LET a == StripLeadingZeros(digits)
      b == StripTrailingZeros(a)
  IN  IF b = << "0" >> THEN [ neg |-> neg, mag |-> b, exp |-> 0 ]
      ELSE [ neg |-> neg, mag |-> b, exp |-> exp + (Len(a) - Len(b)) ]

\* the exponent of the leading digit: the value is d.ddd * 10^DblAdj
DblAdj(v) == v.exp + Len(v.mag) - 1

DblIsZero(v) == v.mag = << "0" >>

\* the result of strtod for mantissa digits `digits` scaled by 10^exp
DOfValue(neg, v, eptr) ==
  LET huge == ~DblIsZero(v)
              /\ (DblAdj(v) > 308 \/ (DblAdj(v) = 308 /\ LexLess(DBL_MAX_DIGITS, v.mag)))
      tiny == ~DblIsZero(v)
              /\ (DblAdj(v) < 0 - 324
                  \/ (DblAdj(v) = 0 - 324 /\ ~LexLess(DBL_TINY_DIGITS, v.mag)))
  IN  [ value  |-> IF tiny THEN DblVal(neg, << "0" >>, 0) ELSE v,
        eptr   |-> eptr,
        erange |-> huge \/ tiny \/ (~DblIsZero(v) /\ DblAdj(v) < 0 - 308),
        huge   |-> huge ]

\* the exponent digits (ne of them at e0, sign eNeg) applied to the mantissa
DOfExpDigits(buf, neg, digits, nf, mEnd, eNeg, e0, ne, eDigits) ==
  LET \* an exponent of more than five digits is past every double either way
      eMag == IF ne = 0 THEN 0
              ELSE IF Len(eDigits) > 5 THEN 99999 ELSE DigitsToNat(eDigits)
  IN  DOfValue(neg, DblVal(neg, digits, (IF eNeg THEN 0 - eMag ELSE eMag) - nf),
               IF ne > 0 THEN e0 + ne ELSE mEnd)

DOfExpRun(buf, neg, digits, nf, mEnd, eNeg, e0, ne) ==
  DOfExpDigits(buf, neg, digits, nf, mEnd, eNeg, e0, ne,
               StripLeadingZeros(SubSeq(buf, e0, e0 + ne - 1)))

\* the exponent part after the mantissa, which ends before index mEnd: an e
\* counts only when digits follow it
DOfExp(buf, neg, digits, nf, mEnd, hasE, eSign) ==
  DOfExpRun(buf, neg, digits, nf, mEnd, eSign /\ buf[mEnd + 1] = "-",
            IF eSign THEN mEnd + 2 ELSE mEnd + 1,
            IF hasE THEN RunLen(buf, IF eSign THEN mEnd + 2 ELSE mEnd + 1, Digit) ELSE 0)

DOfMantissa(buf, neg, digits, nf, mEnd) ==
  DOfExp(buf, neg, digits, nf, mEnd,
         mEnd <= Len(buf) /\ buf[mEnd] \in { "e", "E" },
         mEnd <= Len(buf) /\ buf[mEnd] \in { "e", "E" }
           /\ mEnd + 1 <= Len(buf) /\ buf[mEnd + 1] \in { "-", "+" })

\* ni digits at d0, then nf digits after a point when there is one
DOfRuns(buf, p, neg, d0, ni, dot, nf) ==
  IF ni + nf = 0
  THEN [ value |-> DblVal(FALSE, << "0" >>, 0), eptr |-> p,
         erange |-> FALSE, huge |-> FALSE ]
  ELSE DOfMantissa(buf, neg,
                   SubSeq(buf, d0, d0 + ni - 1) \o SubSeq(buf, d0 + ni + 1, d0 + ni + nf),
                   nf, IF dot THEN d0 + ni + 1 + nf ELSE d0 + ni)

DOfInt(buf, p, neg, d0, ni, dot) ==
  DOfRuns(buf, p, neg, d0, ni, dot, IF dot THEN RunLen(buf, d0 + ni + 1, Digit) ELSE 0)

DOfDigits(buf, p, neg, d0, ni) ==
  DOfInt(buf, p, neg, d0, ni, d0 + ni <= Len(buf) /\ buf[d0 + ni] = ".")

DOfSign(buf, p, s) == DOfDigits(buf, p, s.neg, s.d0, RunLen(buf, s.d0, Digit))

\* strtod(pos, &eptr) on buf from 1-based index p: sign, digits with an
\* optional point, an exponent only when digits follow the e.  Overflow gives
\* HUGE_VAL with ERANGE, underflow to zero gives 0 with ERANGE.
StrToD(buf, p) == DOfSign(buf, p, NumSign(buf, p))


(***************************************************************************)
(* Nodes.  The heap is the sequence of the nodes created so far; a node    *)
(* pointer is an index into it and NULL is 0.  `frees` counts how often    *)
(* Node_Free released the node.                                            *)
(***************************************************************************)
NULL == 0

NoInt == IntVal(FALSE, << "0" >>)
NoNum == DblVal(FALSE, << "0" >>, 0)

Node(type) ==
  [ type |-> type, boolval |-> FALSE, intval |-> NoInt, numval |-> NoNum,
    strval |-> << >>, key |-> << >>, kids |-> << >>, frees |-> 0 ]

NewBoolNode(v)         == [ Node("N_BOOLEAN") EXCEPT !.boolval = v ]
NewIntNode(v)          == [ Node("N_INTEGER") EXCEPT !.intval = v ]
NewDoubleNode(v)       == [ Node("N_NUMBER") EXCEPT !.numval = v ]
NewStringNode(data)    == [ Node("N_STRING") EXCEPT !.strval = data ]
NewKeyValNode(key, n)  == [ Node("N_KEYVAL") EXCEPT !.key = key, !.kids = << n >> ]
NewDictNode            == Node("N_DICT")
NewArrayNode           == Node("N_ARRAY")

IsLive(heap, n) == n # NULL /\ heap[n].frees = 0

RECURSIVE FreeAll(_, _)
\* Node_Free of every pointer of `todo`: NULL is skipped, a node is released
\* with the children it owns
FreeAll(heap, todo) ==
  IF todo = << >> THEN heap
  ELSE LET n == Head(todo)
       IN  IF n = NULL THEN FreeAll(heap, Tail(todo))
           ELSE FreeAll([ heap EXCEPT ![n].frees = @ + 1 ],
                        IF heap[n].frees = 0 THEN heap[n].kids \o Tail(todo)
                                             ELSE Tail(todo))

Node_Free(heap, n) == FreeAll(heap, << n >>)

\* Node_ArrayAppend(arr, n)
Node_ArrayAppend(heap, arr, n) == [ heap EXCEPT ![arr].kids = Append(@, n) ]

\* Node_ArraySet(arr, index, n), index from 0; an index past the end is
\* refused
Node_ArraySet(heap, arr, index, n) ==
  IF index < Len(heap[arr].kids) THEN [ heap EXCEPT ![arr].kids[index + 1] = n ]
  ELSE heap

\* Node_ArrayItem(arr, index, &n), index from 0: what *n holds afterwards
\* (an index past the end is refused and leaves it as it was)
Node_ArrayItem(heap, arr, index, old) ==
  IF index < Len(heap[arr].kids) THEN heap[arr].kids[index + 1] ELSE old

\* the position in dict obj of the pair with this key, 0 when there is none
DictFind(heap, obj, key) ==
  LET ks == heap[obj].kids
      hits == { i \in 1..Len(ks) : heap[ks[i]].key = key }
  IN  IF hits = {} THEN 0 ELSE CHOOSE i \in hits : \A j \in hits : i <= j

\* Node_DictSetKeyVal(obj, kv): a pair whose key is present replaces (and
\* frees) the old pair, otherwise it is appended
Node_DictSetKeyVal(heap, obj, kv) ==
  LET i == DictFind(heap, obj, heap[kv].key)
  IN  IF i = 0 THEN [ heap EXCEPT ![obj].kids = Append(@, kv) ]
      ELSE Node_Free([ heap EXCEPT ![obj].kids[i] = kv ], heap[obj].kids[i])

(***************************************************************************)
(* Trees as values: what a node pointer stands for, for comparing results. *)
(***************************************************************************)
TNull        == [ type |-> "null" ]
TBool(b)     == [ type |-> "N_BOOLEAN", boolval |-> b ]
TInt(v)      == [ type |-> "N_INTEGER", intval |-> v ]
TNum(v)      == [ type |-> "N_NUMBER", numval |-> v ]
TStr(data)   == [ type |-> "N_STRING", strval |-> data ]
TKeyVal(k, v) == [ type |-> "N_KEYVAL", key |-> k, val |-> v ]
TDict(kvs)   == [ type |-> "N_DICT", entries |-> kvs ]
TArr(es)     == [ type |-> "N_ARRAY", elems |-> es ]

RECURSIVE TreeOf(_, _)
\* the tree a pointer of the heap stands for
TreeOf(heap, n) ==
  IF n = NULL THEN TNull
  ELSE LET x == heap[n]
       IN  CASE x.type = "N_BOOLEAN" -> TBool(x.boolval)
             [] x.type = "N_INTEGER" -> TInt(x.intval)
             [] x.type = "N_NUMBER"  -> TNum(x.numval)
             [] x.type = "N_STRING"  -> TStr(x.strval)
             [] x.type = "N_KEYVAL"  -> TKeyVal(x.key, TreeOf(heap, x.kids[1]))
             [] x.type = "N_DICT"    ->
                  TDict([ i \in 1..Len(x.kids) |-> TreeOf(heap, x.kids[i]) ])
             [] x.type = "N_ARRAY"   ->
                  TArr([ i \in 1..Len(x.kids) |-> TreeOf(heap, x.kids[i]) ])


(***************************************************************************)
(* The parse in progress: m = [jsn, joctx, heap, ub, orders].              *)
(*   jsn    the jsonsl lexer: level, its stack of states (slot level + 1), *)
(*          the position in the fed buffer and its token registers;        *)
(*   joctx  JsonObjectContext: err, errpos and the node stack `nodes`      *)
(*          (nlen is its length);                                          *)
(*   heap   the nodes created;                                             *)
(*   ub     "none", or the undefined behaviour the call has run into;      *)
(*   orders the operand orders the build has used at the unsequenced reads  *)
(*          of nlen (a history of the run, not a field of the program).     *)
(***************************************************************************)
JSONSL_ERROR_SUCCESS == "SUCCESS"

\* struct jsonsl_state_st, as jsonsl_reset leaves it
JsonslState0 ==
  [ type |-> "ROOT", nelem |-> 0, pos_begin |-> 0, pos_cur |-> 0,
    special_flags |-> {}, nescapes |-> 0 ]

\* jsonsl_new(levels) and jsonsl_reset
jsonsl_new(levels) ==
  [ level |-> 0, stack |-> [ i \in 1..levels |-> JsonslState0 ], pos |-> 0,
    expecting |-> NUL, tok_last |-> NUL, can_insert |-> TRUE,
    in_escape |-> FALSE, stopfl |-> FALSE, levels_max |-> levels ]

\* calloc(1, sizeof(JsonObjectContext)) with nodes = calloc(levels, ...)
JoctxNew(levels) ==
  [ err |-> JSONSL_ERROR_SUCCESS, errpos |-> 0, nodes |-> << >>, nlen |-> 0,
    cap |-> levels ]

nlen(m) == m.joctx.nlen

\* the lexer state the feed loop calls `state`
CurState(m) == m.jsn.stack[m.jsn.level + 1]

SetState(m, st) == [ m EXCEPT !.jsn.stack[m.jsn.level + 1] = st ]

\* an error callback that records the error and lets the lexer run on
errorCallbackNoStop(m, err, state) ==
  [ m EXCEPT !.joctx.err = err, !.joctx.errpos = state.pos_cur ]

\* errorCallback: record the error and the state's pos_cur, stop the lexer
errorCallback(m, err, state) ==
  [ m EXCEPT !.joctx.err = err, !.joctx.errpos = state.pos_cur, !.jsn.stopfl = TRUE ]

\* _pushNode(ctx, n) with n already a pointer: nodes[nlen++] = n.  The array
\* has `cap` slots and the macro does not look at it: a push onto a full
\* stack writes past the end of the allocation.
_pushPtr(m, n) ==
  IF m.joctx.nlen >= m.joctx.cap
  THEN [ m EXCEPT !.ub = "nodes[] overflow" ]
  ELSE [ m EXCEPT !.joctx.nodes = Append(@, n), !.joctx.nlen = @ + 1 ]

\* _pushNode(ctx, New...Node(...)): allocate the node, then push it
_pushNode(m, node) ==
  _pushPtr([ m EXCEPT !.heap = Append(@, node) ], Len(m.heap) + 1)

\* pushCallback: a dictionary or an array is created when it opens
pushCallback(m, state) ==
  CASE state.type = "OBJECT" -> _pushNode(m, NewDictNode)
    [] state.type = "LIST"   -> _pushNode(m, NewArrayNode)
    [] OTHER                 -> m


(***************************************************************************)
(* jsonsl_util_unescape, as popCallback calls it.                          *)
(***************************************************************************)
\* the escapes the lexer itself lets through after a backslash
JsonslAllowedEscape == { "\"", "/", "\\", "b", "f", "n", "r", "t", "u" }

\* the value of a hex digit, -1 for any other byte
HexVal(c) ==
  CASE c \in Digit -> DigitVal(c)
    [] c \in { "a", "A" } -> 10
    [] c \in { "b", "B" } -> 11
    [] c \in { "c", "C" } -> 12
    [] c \in { "d", "D" } -> 13
    [] c \in { "e", "E" } -> 14
    [] c \in { "f", "F" } -> 15
    [] OTHER -> 0 - 1

\* the byte a two-character escape stands for
EscapeEquiv(c) ==
  CASE c = "b" -> BS
    [] c = "f" -> "\f"
    [] c = "n" -> "\n"
    [] c = "r" -> "\r"
    [] c = "t" -> "\t"
    [] OTHER   -> c

\* a code point below 0x10000 as UTF-8
Utf8(cp) ==
  IF cp < 128 THEN << Chr(cp) >>
  ELSE IF cp < 2048 THEN << Chr(192 + (cp \div 64)), Chr(128 + (cp % 64)) >>
  ELSE << Chr(224 + (cp \div 4096)), Chr(128 + ((cp \div 64) % 64)), Chr(128 + (cp % 64)) >>

RECURSIVE Unescape(_, _)
\* the unescaped bytes of token body `in`, or the error: [err, out]
Unescape(in, toEscape) ==
  IF in = << >> THEN [ err |-> JSONSL_ERROR_SUCCESS, out |-> << >> ]
  ELSE IF Head(in) # "\\"
  THEN LET r == Unescape(Tail(in), toEscape)
       IN  [ r EXCEPT !.out = << Head(in) >> \o @ ]
  ELSE IF Len(in) < 2 \/ in[2] \notin JsonslAllowedEscape
  THEN [ err |-> "ESCAPE_INVALID", out |-> << >> ]
  ELSE IF in[2] \notin toEscape /\ in[2] \notin { "\\", "\"" }
  THEN LET r == Unescape(SubSeq(in, 3, Len(in)), toEscape)
       IN  [ r EXCEPT !.out = << in[1], in[2] >> \o @ ]
  ELSE IF in[2] # "u"
  THEN LET r == Unescape(SubSeq(in, 3, Len(in)), toEscape)
       IN  [ r EXCEPT !.out = << EscapeEquiv(in[2]) >> \o @ ]
  ELSE IF Len(in) < 6
  THEN [ err |-> "UESCAPE_TOOSHORT", out |-> << >> ]
  ELSE IF \E i \in 3..6 : HexVal(in[i]) < 0
  THEN [ err |-> "PERCENT_BADHEX", out |-> << >> ]
  ELSE LET cp == 4096 * HexVal(in[3]) + 256 * HexVal(in[4])
                 + 16 * HexVal(in[5]) + HexVal(in[6])
           r  == Unescape(SubSeq(in, 7, Len(in)), toEscape)
       IN  IF cp = 0 THEN [ err |-> "INVALID_CODEPOINT", out |-> << >> ]
           ELSE [ r EXCEPT !.out = Utf8(cp) \o @ ]

\* what the call returns: the new length, 0 on any error
jsonsl_util_unescape(in, toEscape) ==
  LET r == Unescape(in, toEscape)
  IN  IF r.err = JSONSL_ERROR_SUCCESS
      THEN [ newlen |-> Len(r.out), out |-> r.out, err |-> r.err ]
      ELSE [ newlen |-> 0, out |-> << >>, err |-> r.err ]

(***************************************************************************)
(* popCallback.                                                            *)
(***************************************************************************)
\* The two operands of Node_ArrayAppend(nodes[nlen - 1], _popNode(ctx)) read
\* and decrement nlen with no sequence point between them, and so do the two
\* sides of nodes[nlen - 2]->value.kvval.val = _popNode(ctx): the order is
\* the compiler's.
CallOrders == { "args right to left", "args left to right" }
AssignOrders == { "left side first", "right side first" }

\* _popNode(ctx): nodes[--nlen]
_popNode(m) ==
  [ m   |-> [ m EXCEPT !.joctx.nodes = SubSeq(@, 1, Len(@) - 1), !.joctx.nlen = @ - 1 ],
    ptr |-> m.joctx.nodes[m.joctx.nlen] ]

HasType(m, n, type) == n # NULL /\ m.heap[n].type = type

\* the two operands of F(nodes[nlen - 1], _popNode(ctx)) under an order:
\* the target and the popped node, with the stack after the pop
CallOperands(m, order) ==
  LET p == _popNode(m)
      m1 == [ p.m EXCEPT !.orders = @ \cup { order } ]
  IN  IF order = "args right to left"
      THEN [ m |-> m1, target |-> p.m.joctx.nodes[p.m.joctx.nlen], n |-> p.ptr ]
      ELSE [ m |-> m1, target |-> m.joctx.nodes[m.joctx.nlen], n |-> p.ptr ]

\* Node_ArrayAppend(nodes[nlen - 1], _popNode(ctx))
AttachToArray(m, order) ==
  LET o == CallOperands(m, order)
  IN  IF HasType(m, o.target, "N_ARRAY")
      THEN [ o.m EXCEPT !.heap = Node_ArrayAppend(@, o.target, o.n) ]
      ELSE [ o.m EXCEPT !.ub = "Node_ArrayAppend on a node that is no array" ]

\* Node_DictSetKeyVal(nodes[nlen - 1], _popNode(ctx))
AttachToDict(m, order) ==
  LET o == CallOperands(m, order)
  IN  IF HasType(m, o.target, "N_DICT") /\ HasType(m, o.n, "N_KEYVAL")
      THEN [ o.m EXCEPT !.heap = Node_DictSetKeyVal(@, o.target, o.n) ]
      ELSE [ o.m EXCEPT !.ub = "Node_DictSetKeyVal on a node that is no dict or no pair" ]

\* nodes[nlen - 2]->value.kvval.val = _popNode(ctx)
SetPendingVal(m, order) ==
  LET p  == _popNode(m)
      m1 == [ p.m EXCEPT !.orders = @ \cup { order } ]
      ix == IF order = "left side first" THEN m.joctx.nlen - 1 ELSE p.m.joctx.nlen - 1
  IN  IF ix >= 1 /\ HasType(m, m.joctx.nodes[ix], "N_KEYVAL")
      THEN [ m1 EXCEPT !.heap[m.joctx.nodes[ix]].kids = << p.ptr >> ]
      ELSE [ m1 EXCEPT !.ub = "kvval.val written through a node that is no pair" ]

\* anything that pops is set in its parent, except the root element and keys
SetInParent(m, state) ==
  IF ~(m.joctx.nlen > 1 /\ state.type # "HKEY") THEN { m }
  ELSE LET below == m.joctx.nodes[m.joctx.nlen - 1]
       IN  IF below = NULL THEN { [ m EXCEPT !.ub = "type read through NULL" ] }
           ELSE CASE m.heap[below].type = "N_DICT" ->
                       { AttachToDict(m, o) : o \in CallOrders }
                  [] m.heap[below].type = "N_ARRAY" ->
                       { AttachToArray(m, o) : o \in CallOrders }
                  [] m.heap[below].type = "N_KEYVAL" ->
                       UNION { LET m1 == SetPendingVal(m, a)
                               IN  IF m1.ub # "none" THEN { m1 }
                                   ELSE { AttachToDict(m1, o) : o \in CallOrders }
                               : a \in AssignOrders }
                  [] OTHER -> { m }

\* the string and key branch: the token body without its quote, unescaped
\* when the lexer counted escapes
PopString(m, state, base) ==
  LET pos == state.pos_begin + 1
      len == (state.pos_cur - state.pos_begin) - 1
      u   == jsonsl_util_unescape(Slice(base, pos, len), _AllowedEscapes)
      data == IF state.nescapes # 0 THEN u.out ELSE Slice(base, pos, len)
  IN  IF state.nescapes # 0 /\ u.newlen = 0
      THEN [ m |-> errorCallback(m, u.err, state), returned |-> TRUE ]
      ELSE [ m |-> _pushNode(m, IF state.type = "STRING" THEN NewStringNode(data)
                                ELSE NewKeyValNode(data, NULL)),
             returned |-> FALSE ]

\* strtod branch: value d, token end `end`
PopDouble(m, state, d, end) ==
  IF (d.erange /\ d.huge) \/ (d.erange /\ DblIsZero(d.value)) \/ d.eptr # end
  THEN [ m |-> errorCallback(m, "INVALID_NUMBER", state), returned |-> TRUE ]
  ELSE [ m |-> _pushNode(m, NewDoubleNode(d.value)), returned |-> FALSE ]

\* the strtoll branch without its errno test: the saturated value is pushed
PopIntegerNoRange(m, state, l, end) ==
  IF l.eptr # end
  THEN [ m |-> errorCallback(m, "INVALID_NUMBER", state), returned |-> TRUE ]
  ELSE [ m |-> _pushNode(m, NewIntNode(l.value)), returned |-> FALSE ]

\* strtoll branch: value l, token end `end`.  ERANGE comes only with
\* LLONG_MAX or LLONG_MIN, and no other errno is set with value 0.
PopInteger(m, state, l, end) ==
  IF l.erange \/ l.eptr # end
  THEN [ m |-> errorCallback(m, "INVALID_NUMBER", state), returned |-> TRUE ]
  ELSE [ m |-> _pushNode(m, NewIntNode(l.value)), returned |-> FALSE ]

\* the numeric branch: a token flagged FLOAT or EXPONENT goes through strtod,
\* any other through strtoll; a token not consumed whole or out of range is
\* JSONSL_ERROR_INVALID_NUMBER
PopNumeric(m, state, base) ==
  IF state.special_flags \cap { "FLOAT", "EXPONENT" } # {}
  THEN PopDouble(m, state, StrToD(base, state.pos_begin + 1), state.pos_cur + 1)
  ELSE PopInteger(m, state, StrToLL(base, state.pos_begin + 1), state.pos_cur + 1)

\* the special branch
PopSpecial(m, state, base) ==
  IF state.special_flags \cap { "SIGNED", "UNSIGNED" } # {}
  THEN PopNumeric(m, state, base)
  ELSE IF state.special_flags \cap { "TRUE", "FALSE" } # {}
  THEN [ m |-> _pushNode(m, NewBoolNode("TRUE" \in state.special_flags)),
         returned |-> FALSE ]
  ELSE IF "NULL" \in state.special_flags
  THEN [ m |-> _pushPtr(m, NULL), returned |-> FALSE ]
  ELSE [ m |-> m, returned |-> FALSE ]

\* popCallback(jsn, action, state, at): the machines it can leave
popCallback(m, state, base) ==
  LET r == CASE state.type \in { "STRING", "HKEY" } -> PopString(m, state, base)
             [] state.type = "SPECIAL"              -> PopSpecial(m, state, base)
             [] OTHER                               -> [ m |-> m, returned |-> FALSE ]
  IN  IF r.returned \/ r.m.ub # "none" THEN { r.m } ELSE SetInParent(r.m, state)


(***************************************************************************)
(* jsonsl_feed, one byte at a time.  Every operator gives the set of       *)
(* machines the byte can leave; a machine whose lexer is stopped, or that  *)
(* ran into undefined behaviour, has returned from the feed.               *)
(***************************************************************************)
\* the bytes that end a special token
IsSpecialEnd(c) ==
  _IsAllowedWhitespace(c) \/ c \in { "\"", ",", ":", "[", "\\", "]", "{", "}" }

\* extract_special: the flags a byte opens a special token with
ExtractSpecial(c) ==
  CASE c = "-" -> { "DASH" }
    [] c = "0" -> { "ZERO" }
    [] c \in Digit \ { "0" } -> { "UNSIGNED" }
    [] c = "t" -> { "TRUE" }
    [] c = "f" -> { "FALSE" }
    [] c = "n" -> { "NULL" }
    [] OTHER   -> {}

SpecialLiteral(flags) ==
  CASE flags = { "TRUE" }  -> << "t", "r", "u", "e" >>
    [] flags = { "FALSE" } -> << "f", "a", "l", "s", "e" >>
    [] flags = { "NULL" }  -> << "n", "u", "l", "l" >>
    [] OTHER               -> << >>

\* CONTINUE_NEXT_CHAR: the loop's jsn->pos++
NextChar(m) == [ m EXCEPT !.jsn.pos = @ + 1 ]

\* INVOKE_ERROR: errorCallback returns 0, so the feed returns
InvokeError(m, err) == errorCallback(m, err, CurState(m))

\* STACK_PUSH then state->type = type: one level deeper, or LEVELS_EXCEEDED
StackPush(m, type) ==
  IF m.jsn.level >= m.jsn.levels_max - 1
  THEN InvokeError(m, "LEVELS_EXCEEDED")
  ELSE [ m EXCEPT !.jsn.level = @ + 1,
                  !.jsn.stack[m.jsn.level + 2].pos_begin = m.jsn.pos,
                  !.jsn.stack[m.jsn.level + 2].type = type ]

Stopped(m) == m.jsn.stopfl \/ m.ub # "none"

\* CALLBACK_AND_POP: the POP callback on the state with pos_cur set, then one
\* level up with the parent's pos_cur set
CallbackAndPop(m, base) ==
  LET m1 == SetState(m, [ CurState(m) EXCEPT !.pos_cur = m.jsn.pos ])
  IN  { IF Stopped(m2) THEN m2
        ELSE [ m2 EXCEPT !.jsn.stack[m2.jsn.level + 1].nescapes = 0,
                         !.jsn.level = @ - 1,
                         !.jsn.stack[m2.jsn.level].pos_cur = m2.jsn.pos ]
        : m2 \in popCallback(m1, CurState(m1), base) }

\* a byte inside a string or a key
StringByte(m, c, base) ==
  IF m.jsn.in_escape
  THEN IF c \notin JsonslAllowedEscape
       THEN { InvokeError([ m EXCEPT !.jsn.in_escape = FALSE ], "ESCAPE_INVALID") }
       ELSE { NextChar([ m EXCEPT !.jsn.in_escape = FALSE ]) }
  ELSE IF c = "\""
  THEN { IF Stopped(m2) THEN m2 ELSE NextChar(m2)
         : m2 \in CallbackAndPop([ m EXCEPT !.jsn.can_insert = FALSE ], base) }
  ELSE IF c = "\\"
  THEN { NextChar([ SetState(m, [ CurState(m) EXCEPT !.nescapes = @ + 1 ])
                    EXCEPT !.jsn.in_escape = TRUE ]) }
  ELSE IF c \in ControlBytes
  THEN { InvokeError(m, "WEIRD_WHITESPACE") }
  ELSE { NextChar(m) }

\* ENSURE_HVAL: a value in an object needs its key first
NeedsHKey(m) == CurState(m).type = "OBJECT" /\ CurState(m).nelem % 2 = 0

\* GT_SPECIAL_BEGIN: a byte that opens a special token, or is no token at all
SpecialBegin(m, c) ==
  LET flags == ExtractSpecial(c)
      m1 == SetState(m, [ CurState(m) EXCEPT !.nelem = @ + 1 ])
      m2 == StackPush(m1, "SPECIAL")
  IN  IF flags = {}
      THEN IF c = NUL THEN InvokeError(m, "FOUND_NULL_BYTE")
           ELSE IF c \in ControlBytes THEN InvokeError(m, "WEIRD_WHITESPACE")
           ELSE InvokeError(m, "SPECIAL_EXPECTED")
      ELSE IF NeedsHKey(m) THEN InvokeError(m, "HKEY_EXPECTED")
      ELSE IF ~m.jsn.can_insert THEN InvokeError(m1, "CANT_INSERT")
      ELSE IF Stopped(m2) THEN m2
      ELSE NextChar([ SetState(m2, [ CurState(m2) EXCEPT
                                       !.special_flags = flags,
                                       !.nescapes = 1,
                                       !.nelem = 0 ])
                      EXCEPT !.jsn.tok_last = IF flags = { "UNSIGNED" } THEN "1" ELSE "-" ])

\* a quote outside a string: a key or a string value opens
QuoteByte(m, c) ==
  LET st == CurState(m)
      m0 == [ m EXCEPT !.jsn.can_insert = FALSE ]
      m1 == SetState(m0, [ st EXCEPT !.nelem = @ + 1 ])
  IN  CASE st.type = "OBJECT" ->
             IF st.nelem % 2 = 1
             THEN IF m.jsn.tok_last # ":" THEN InvokeError(m1, "MISSING_TOKEN")
                  ELSE LET m2 == StackPush([ m1 EXCEPT !.jsn.expecting = ",",
                                                       !.jsn.tok_last = NUL ], "STRING")
                       IN  IF Stopped(m2) THEN m2 ELSE NextChar(m2)
             ELSE IF m.jsn.expecting # "\"" THEN InvokeError(m1, "STRAY_TOKEN")
                  ELSE LET m2 == StackPush([ m1 EXCEPT !.jsn.expecting = ":",
                                                       !.jsn.tok_last = NUL ], "HKEY")
                       IN  IF Stopped(m2) THEN m2 ELSE NextChar(m2)
        [] st.type = "LIST" ->
             LET m2 == StackPush(m1, "STRING")
             IN  IF Stopped(m2) THEN m2
                 ELSE NextChar([ m2 EXCEPT !.jsn.expecting = ",", !.jsn.tok_last = NUL ])
        [] OTHER -> InvokeError(m0, "STRING_OUTSIDE_CONTAINER")

\* '{' or '[': a container opens and pushCallback creates its node
OpenByte(m, c) ==
  LET type == IF c = "{" THEN "OBJECT" ELSE "LIST"
      m1 == SetState(m, [ CurState(m) EXCEPT !.nelem = @ + 1 ])
      m2 == StackPush(m1, type)
      m3 == [ SetState(m2, [ CurState(m2) EXCEPT !.nelem = 0 ])
              EXCEPT !.jsn.can_insert = TRUE,
                     !.jsn.expecting = IF c = "{" THEN "\"" ELSE @ ]
      m4 == pushCallback(m3, CurState(m3))
  IN  IF ~m.jsn.can_insert THEN InvokeError(m, "CANT_INSERT")
      ELSE IF NeedsHKey(m) THEN InvokeError(m, "HKEY_EXPECTED")
      ELSE IF Stopped(m2) THEN m2
      ELSE IF Stopped(m4) THEN m4
      ELSE NextChar([ m4 EXCEPT !.jsn.tok_last = NUL ])

\* '}' or ']': the container closes and popCallback sets it in its parent
CloseByte(m, c, base) ==
  LET st == CurState(m)
      m1 == [ m EXCEPT !.jsn.can_insert = FALSE, !.jsn.level = @ - 1,
                       !.jsn.expecting = ",", !.jsn.tok_last = NUL ]
  IN  IF m.jsn.tok_last = "," THEN { errorCallback(m, "TRAILING_COMMA", st) }
      ELSE IF st.type # (IF c = "]" THEN "LIST" ELSE "OBJECT")
      THEN { errorCallback(m1, "BRACKET_MISMATCH", st) }
      ELSE IF c = "}" /\ st.nelem % 2 # 0
      THEN { errorCallback(m1, "VALUE_EXPECTED", st) }
      ELSE { IF Stopped(m2) THEN m2
             ELSE NextChar([ m2 EXCEPT !.jsn.stack[m2.jsn.level + 1].pos_cur = m2.jsn.pos ])
             : m2 \in popCallback(m1, st, base) }

\* GT_STRUCTURAL_TOKEN
StructuralByte(m, c, base) ==
  CASE c = ":" ->
         IF m.jsn.expecting # ":" THEN { InvokeError(m, "STRAY_TOKEN") }
         ELSE { NextChar([ m EXCEPT !.jsn.tok_last = ":", !.jsn.can_insert = TRUE,
                                    !.jsn.expecting = "\"" ]) }
    [] c = "," ->
         IF m.jsn.expecting # "," THEN { InvokeError(m, "STRAY_TOKEN") }
         ELSE { NextChar([ m EXCEPT !.jsn.tok_last = ",", !.jsn.expecting = "\"",
                                    !.jsn.can_insert =
                                       IF CurState(m).type = "OBJECT" THEN @ ELSE TRUE ]) }
    [] c \in { "{", "[" } -> { OpenByte(m, c) }
    [] c \in { "}", "]" } -> CloseByte(m, c, base)
    [] OTHER -> { SpecialBegin(m, c) }

\* GT_SPECIAL_POP: the checks on the finished token, the POP callback, then
\* the ending byte itself as a structural token unless it is whitespace
SpecialPop(m, c, base) ==
  LET st    == CurState(m)
      flags == st.special_flags
      bad   == CASE flags \in { { "UNSIGNED" }, { "SIGNED" } } -> "none"
                 [] "ZERO" \in flags -> "none"
                 [] flags = { "DASH" } -> "INVALID_NUMBER"
                 [] flags \cap { "SIGNED", "UNSIGNED" } # {} ->
                      IF m.jsn.tok_last # "1" THEN "INVALID_NUMBER" ELSE "none"
                 [] OTHER ->
                      IF st.nescapes # Len(SpecialLiteral(flags))
                      THEN "SPECIAL_INCOMPLETE" ELSE "none"
      m0    == IF "ZERO" \in flags
               THEN SetState(m, [ st EXCEPT !.special_flags = { "UNSIGNED" } ])
               ELSE m
  IN  IF bad # "none" THEN { InvokeError([ m EXCEPT !.jsn.can_insert = FALSE ], bad) }
      ELSE UNION { IF Stopped(m2) THEN { m2 }
                   ELSE LET m3 == [ m2 EXCEPT !.jsn.expecting = ",", !.jsn.tok_last = NUL ]
                        IN  IF _IsAllowedWhitespace(c) THEN { NextChar(m3) }
                            ELSE StructuralByte(m3, c, base)
                   : m2 \in CallbackAndPop([ m0 EXCEPT !.jsn.can_insert = FALSE ], base) }

\* a byte inside a special token
SpecialByte(m, c, base) ==
  LET st    == CurState(m)
      flags == st.special_flags
      Set(f, last) == NextChar([ SetState(m, [ st EXCEPT !.special_flags = f ])
                                 EXCEPT !.jsn.tok_last = last ])
      Numeric(mm, fl) ==
        CASE c \in Digit -> { NextChar([ mm EXCEPT !.jsn.tok_last = "1" ]) }
          [] c = "." ->
               IF "FLOAT" \in fl THEN { InvokeError(mm, "INVALID_NUMBER") }
               ELSE { NextChar([ SetState(mm, [ CurState(mm) EXCEPT
                                                  !.special_flags = fl \cup { "FLOAT" } ])
                                 EXCEPT !.jsn.tok_last = "." ]) }
          [] c \in { "e", "E" } ->
               IF "EXPONENT" \in fl THEN { InvokeError(mm, "INVALID_NUMBER") }
               ELSE { NextChar([ SetState(mm, [ CurState(mm) EXCEPT
                                                  !.special_flags = fl \cup { "EXPONENT" } ])
                                 EXCEPT !.jsn.tok_last = "e" ]) }
          [] c \in { "-", "+" } ->
               IF mm.jsn.tok_last # "e" THEN { InvokeError(mm, "INVALID_NUMBER") }
               ELSE { NextChar([ mm EXCEPT !.jsn.tok_last = "-" ]) }
          [] OTHER ->
               IF IsSpecialEnd(c) THEN SpecialPop(mm, c, base)
               ELSE { InvokeError(mm, "INVALID_NUMBER") }
      unzero == (flags \ { "ZERO" }) \cup
                (IF "SIGNED" \in flags THEN {} ELSE { "UNSIGNED" })
  IN  IF flags = { "DASH" }
      THEN IF ~IsDigit(c) THEN { InvokeError(m, "INVALID_NUMBER") }
           ELSE IF c = "0" THEN { Set({ "ZERO", "SIGNED" }, m.jsn.tok_last) }
           ELSE { Set({ "SIGNED" }, m.jsn.tok_last) }
      ELSE IF "ZERO" \in flags
      THEN IF IsDigit(c) THEN { InvokeError(m, "INVALID_NUMBER") }
           ELSE Numeric(SetState(m, [ st EXCEPT !.special_flags = unzero ]), unzero)
      ELSE IF flags \cap { "SIGNED", "UNSIGNED" } # {}
      THEN Numeric(m, flags)
      ELSE IF ~IsSpecialEnd(c)
      THEN LET lit == SpecialLiteral(flags)
               ix  == (m.jsn.pos - st.pos_begin) + 1
           IN  IF ix > Len(lit) \/ lit[ix] # c
               THEN { InvokeError(SetState(m, [ st EXCEPT !.nescapes = @ + 1 ]),
                                  "SPECIAL_EXPECTED") }
               ELSE { NextChar(SetState(m, [ st EXCEPT !.nescapes = @ + 1 ])) }
      ELSE SpecialPop(m, c, base)

\* one turn of the feed loop on byte c of the fed buffer
JsonslByte(m, c, base) ==
  LET type == CurState(m).type
  IN  IF type \in { "STRING", "HKEY" } THEN StringByte(m, c, base)
      ELSE IF type = "SPECIAL" THEN SpecialByte(m, c, base)
      ELSE IF _IsAllowedWhitespace(c) THEN { NextChar(m) }
      ELSE IF ExtractSpecial(c) # {} THEN { SpecialBegin(m, c) }
      ELSE IF c = "\"" THEN { QuoteByte(m, c) }
      ELSE IF c = "\\" THEN { InvokeError(m, "ESCAPE_OUTSIDE_STRING") }
      ELSE StructuralByte(m, c, base)


(***************************************************************************)
(* The serializer.  Node_Serializer walks the tree depth first and calls   *)
(* _JSONSerialize_BeginValue on every node (a NULL child included),        *)
(* _JSONSerialize_EndValue on dicts and arrays, and                        *)
(* _JSONSerialize_ContainerDelimiter between siblings.  The builder is     *)
(* b = [buf, depth, indentstr, newlinestr, spacestr], with `low` the       *)
(* lowest value depth has taken (a history of the walk).                   *)
(***************************************************************************)
RECURSIVE Repeat(_, _)
Repeat(str, n) == IF n <= 0 THEN << >> ELSE str \o Repeat(str, n - 1)

Cat(b, str) == [ b EXCEPT !.buf = @ \o str ]

\* _JSONSerialize_Indent: depth copies of the indent string
_JSONSerialize_Indent(b) == Cat(b, Repeat(b.indentstr, b.depth))

\* the printf conversion \u%04x of a byte
FmtU04x(c) ==
  << "\\", "u", "0", "0", HexDigits[(CodeOf[c] \div 16) + 1], HexDigits[(CodeOf[c] % 16) + 1] >>

\* the escaping without the case of the solidus
EscapeByteRawSolidus(c) ==
  CASE c \in { "\"", "\\" } -> << "\\", c >>
    [] c = BS   -> << "\\", "b" >>
    [] c = "\f" -> << "\\", "f" >>
    [] c = "\n" -> << "\\", "n" >>
    [] c = "\r" -> << "\\", "r" >>
    [] c = "\t" -> << "\\", "t" >>
    [] OTHER    -> IF CodeOf[c] > 31 /\ IsPrint(c) THEN << c >> ELSE FmtU04x(c)

\* one byte of a string value, escaped
EscapeByte(c) ==
  CASE c \in { "\"", "\\" } -> << "\\", c >>
    [] c = "/"  -> << "\\", "/" >>
    [] c = BS   -> << "\\", "b" >>
    [] c = "\f" -> << "\\", "f" >>
    [] c = "\n" -> << "\\", "n" >>
    [] c = "\r" -> << "\\", "r" >>
    [] c = "\t" -> << "\\", "t" >>
    [] OTHER    -> IF CodeOf[c] > 31 /\ IsPrint(c) THEN << c >> ELSE FmtU04x(c)

\* _JSONSerialize_StringValue: quote, each of the len bytes escaped, quote
_JSONSerialize_StringValue(data, b) ==
  Cat(b, << "\"" >> \o Concat([ i \in 1..Len(data) |-> EscapeByte(data[i]) ]) \o << "\"" >>)

\* what printf's %s prints of a byte array: the bytes before the first NUL
CString(data) ==
  LET nuls == { i \in 1..Len(data) : data[i] = NUL }
  IN  IF nuls = {} THEN data
      ELSE SubSeq(data, 1, (CHOOSE i \in nuls : \A j \in nuls : i <= j) - 1)

\* sdscatfmt %I of an int64
FmtInt(v) == (IF v.neg THEN << "-" >> ELSE << >>) \o v.mag

\* fabs(floor(v) - v) <= DBL_EPSILON: no fraction digits, or a positive value
\* of at most 2.220446049250313e-16
DBL_EPSILON_DIGITS ==
  << "2","2","2","0","4","4","6","0","4","9","2","5","0","3","1","3" >>
DblIsIntegral(v) ==
  \/ v.exp >= 0
  \/ ~v.neg /\ (DblAdj(v) < 0 - 16
                \/ (DblAdj(v) = 0 - 16 /\ ~LexLess(DBL_EPSILON_DIGITS, v.mag)))

\* the exponent part of %e and %g: sign and at least two digits
FmtExp(e) ==
  << "e", IF e < 0 THEN "-" ELSE "+" >>
  \o (LET ds == NatToDigits(IF e < 0 THEN 0 - e ELSE e)
      IN  IF Len(ds) < 2 THEN << "0" >> \o ds ELSE ds)

\* the three printf conversions of a double.  The digits are those of the
\* decimal the double was read from: that is what printf prints for the
\* doubles whose binary value is that decimal (integers below 2^53, halves,
\* quarters, ...), which are the ones the model serializes.
FmtDouble(v) ==
  LET sign == IF v.neg THEN << "-" >> ELSE << >>
      adj  == DblAdj(v)
      frac == SubSeq(v.mag, 2, Len(v.mag))
  IN  IF DblIsIntegral(v) /\ adj < 60
      THEN \* %.0f
           sign \o (IF v.exp >= 0 THEN v.mag \o Repeat(<< "0" >>, v.exp) ELSE << "0" >>)
      ELSE IF adj < 0 - 6 \/ adj > 9 \/ (adj = 9 /\ v.mag # << "1" >>)
      THEN \* %e: six digits after the point
           sign \o << v.mag[1], "." >>
           \o SubSeq(frac \o Repeat(<< "0" >>, 6), 1, 6) \o FmtExp(adj)
      ELSE \* %.17g
           IF adj < 0 - 4
           THEN sign \o << v.mag[1] >>
                \o (IF frac = << >> THEN << >> ELSE << "." >> \o frac) \o FmtExp(adj)
           ELSE IF adj < 0
           THEN sign \o << "0", "." >> \o Repeat(<< "0" >>, (0 - adj) - 1) \o v.mag
           ELSE sign \o SubSeq(v.mag, 1, adj + 1) \o << "." >>
                \o SubSeq(v.mag, adj + 2, Len(v.mag))

RECURSIVE Node_Serializer(_, _)

\* the children of a container, each after a delimiter but the first
RECURSIVE SerializeKids(_, _, _)
SerializeKids(kids, i, b) ==
  IF i > Len(kids) THEN b
  ELSE SerializeKids(kids, i + 1,
         Node_Serializer(kids[i],
           IF i > 1
           THEN \* _JSONSerialize_ContainerDelimiter: "," newline, indent
                _JSONSerialize_Indent(Cat(b, << "," >> \o b.newlinestr))
           ELSE b))

\* the opening of a container that does not look at its length
BeginContainerAlways(bracket, count, b) ==
  LET b1 == [ Cat(b, << bracket >>) EXCEPT !.depth = @ + 1 ]
  IN  _JSONSerialize_Indent(Cat(b1, b1.newlinestr))

\* _JSONSerialize_BeginValue on a dict or an array: bracket, depth + 1, and a
\* newline with the indent when it is not empty
BeginContainer(bracket, count, b) ==
  LET b1 == [ Cat(b, << bracket >>) EXCEPT !.depth = @ + 1 ]
  IN  IF count # 0 THEN _JSONSerialize_Indent(Cat(b1, b1.newlinestr)) ELSE b1

\* _JSONSerialize_EndValue: newline when not empty, depth - 1, indent, bracket
EndContainer(bracket, count, b) ==
  LET b1 == IF count # 0 THEN Cat(b, b.newlinestr) ELSE b
  IN  Cat(_JSONSerialize_Indent([ b1 EXCEPT !.depth = @ - 1,
                                            !.low = IF b1.depth - 1 < @
                                                    THEN b1.depth - 1 ELSE @ ]),
          << bracket >>)

\* the walk of tree n with builder b
Node_Serializer(n, b) ==
  CASE n.type = "null"      -> Cat(b, << "n", "u", "l", "l" >>)
    [] n.type = "N_BOOLEAN" ->
         Cat(b, IF n.boolval THEN << "t", "r", "u", "e" >>
                ELSE << "f", "a", "l", "s", "e" >>)
    [] n.type = "N_INTEGER" -> Cat(b, FmtInt(n.intval))
    [] n.type = "N_NUMBER"  -> Cat(b, FmtDouble(n.numval))
    [] n.type = "N_STRING"  -> _JSONSerialize_StringValue(n.strval, b)
    [] n.type = "N_KEYVAL"  ->
         \* sdscatfmt(b->buf, "\"%s\":%s", key, spacestr), then the value
         Node_Serializer(n.val,
           Cat(b, << "\"" >> \o CString(n.key) \o << "\"", ":" >> \o b.spacestr))
    [] n.type = "N_DICT"    ->
         EndContainer("}", Len(n.entries),
           SerializeKids(n.entries, 1, BeginContainer("{", Len(n.entries), b)))
    [] n.type = "N_ARRAY"   ->
         EndContainer("]", Len(n.elems),
           SerializeKids(n.elems, 1, BeginContainer("[", Len(n.elems), b)))

\* an option string: << >> is the NULL pointer, << str >> points to str;
\* opt->indentstr ? sdsnew(opt->indentstr) : sdsempty()
OptString(p) == IF p = << >> THEN << >> ELSE p[1]

\* the builder SerializeNodeToJSON sets up, on the caller's buffer
NewBuilder(opt, json) ==
  [ buf |-> json, depth |-> 0, low |-> 0, indentstr |-> OptString(opt.indentstr),
    newlinestr |-> OptString(opt.newlinestr), spacestr |-> OptString(opt.spacestr) ]

\* a serializer that starts from an empty buffer instead of *json
SerializeNodeToJSONFresh(node, opt, json) ==
  Node_Serializer(node, NewBuilder(opt, << >>)).buf

\* SerializeNodeToJSON(node, opt, &json): *json after the call
SerializeNodeToJSON(node, opt, json) ==
  Node_Serializer(node, NewBuilder(opt, json)).buf


(***************************************************************************)
(* The inputs of the model.                                                *)
(***************************************************************************)
\* eighteen digits: with one more digit, a number next to 2^63
BigDigits ==
  << "9","2","2","3","3","7","2","0","3","6","8","5","4","7","7","5","8","0" >>

\* the fragments input texts are made of
Tokens ==
  { << "{" >>, << "}" >>, << "[" >>, << "]" >>, << "," >>, << ":" >>, << " " >>,
    << "\t", "\n", "\r" >>, << "[", "[" >>,
    << "\"", "a", "\"" >>,
    << "{", "\"", "a", "\"", ":" >>,
    << "7" >>, << "8" >>, BigDigits, << "-" >>, << ".", "5" >>, << "e", "8" >>,
    << "t", "r", "u", "e" >>, << "n", "u", "l", "l" >>,
    << "\"" >>, << "x" >>,
    << "\"", "\\", "n", "\"" >>,
    << "\"", "\\", "u", "0", "0", "0", "0", "\"" >> }

RECURSIVE TextsOf(_)
\* the concatenations of at most n fragments
TextsOf(n) ==
  IF n = 0 THEN { << >> }
  ELSE LET shorter == TextsOf(n - 1)
       IN  shorter \cup { t \o k : t \in shorter, k \in Tokens }

\* array texts of several elements: scalars, nulls and nested containers
Array78 == << "[", "7", ",", "8", "]" >>
Array877 == << "[", "8", ",", "7", ",", "7", "]" >>
ArrayNullTrueA == << "[", "n", "u", "l", "l", ",", "t", "r", "u", "e", ",", "\"", "a", "\"", "]" >>
ArrayNested == << "[", "[", "]", ",", "7", ",", "{", "}", "]" >>
ArrayDeep == << "[", "7", ",", "[", "8", ",", "n", "u", "l", "l", "]", ",", "[", "]", "]" >>
ArrayDict == << "[", "{", "\"", "a", "\"", ":", "7", "}", ",", "8", "]" >>
ArrayTexts == { Array78, Array877, ArrayNullTrueA, ArrayNested, ArrayDeep, ArrayDict }

\* the texts handed to the parse
Texts == TextsOf(MaxTokens) \cup ArrayTexts

\* the trees handed to the serializer
Leaves ==
  { TNull, TBool(TRUE), TBool(FALSE),
    TInt(IntVal(FALSE, << "7" >>)), TInt(IntVal(TRUE, LLONG_MIN_MAG)),
    TNum(DblVal(FALSE, << "1" >>, 0)), TNum(DblVal(FALSE, << "7", "5" >>, 0 - 1)),
    TStr(<< >>), TStr(<< "a", "\"", "\\", "\n", SOH >>) }

Keys == { << "a" >>, << "a", "\"" >>, << "a", NUL, "b" >>, << "\n" >> }

\* the tree of the text {"a":[1,2]}
Fixture ==
  TDict(<< TKeyVal(<< "a" >>, TArr(<< TInt(IntVal(FALSE, << "1" >>)),
                                      TInt(IntVal(FALSE, << "2" >>)) >>)) >>)

Trees1 ==
  Leaves
  \cup { TArr(<< >>), TDict(<< >>) }
  \cup { TArr(<< x >>) : x \in Leaves }
  \cup { TArr(<< x, y >>) : x \in { TNull, TInt(IntVal(FALSE, << "7" >>)) }, y \in Leaves }
  \cup { TDict(<< TKeyVal(k, x) >>) : k \in Keys, x \in Leaves }

Trees ==
  Trees1
  \cup { TArr(<< x >>) : x \in Trees1 }
  \cup { TDict(<< TKeyVal(<< "a" >>, x) >>) : x \in Trees1 }
  \cup { TDict(<< TKeyVal(<< "a" >>, x), TKeyVal(<< "b" >>, TNull) >>) : x \in Leaves }
  \cup { TStr(<< c >>) : c \in Byte }
  \cup { Fixture }

NoTree == [ type |-> "none" ]

\* JSONSerializeOpt, each string a pointer (<< >> is NULL): the three empty
\* strings, the three NULL, the pretty-print style of the fixture, and one
\* string alone
CompactOpt == [ indentstr |-> << << >> >>, newlinestr |-> << << >> >>, spacestr |-> << << >> >> ]
NullOpt == [ indentstr |-> << >>, newlinestr |-> << >>, spacestr |-> << >> ]
PrettyOpt ==
  [ indentstr |-> << << " ", " " >> >>, newlinestr |-> << << "\n" >> >>,
    spacestr |-> << << " " >> >> ]
Opts ==
  { CompactOpt, NullOpt, PrettyOpt,
    [ NullOpt EXCEPT !.indentstr = << << "\t" >> >> ],
    [ NullOpt EXCEPT !.newlinestr = << << "\n" >> >> ],
    [ CompactOpt EXCEPT !.spacestr = << << " " >> >> ] }

\* what the caller's buffer holds before SerializeNodeToJSON
Jsons == { << >>, << "x" >> }


(***************************************************************************)
(* The state: one call of CreateNodeFromJSON, on a text of the caller or   *)
(* on the text SerializeNodeToJSON has produced from a tree.               *)
(***************************************************************************)
VARIABLES
  tree,       \* the tree handed to the serializer, NoTree when the caller brings text
  opt,        \* the serializer's options
  json,       \* the caller's buffer SerializeNodeToJSON appends to
  buf,        \* the caller's input text (len is its length)
  pc,         \* where the call is
  _off,       \* the munch offset
  is_scalar,  \* the input was wrapped in a synthetic array
  _buf,       \* the buffer fed to the lexer
  allocs,     \* the allocations of the call that are live
  oob,        \* a byte past the end of the caller's input has been read
  jsn,        \* the lexer
  joctx,      \* the JsonObjectContext
  heap,       \* the nodes created
  ub,         \* the undefined behaviour run into, "none" otherwise
  orders,     \* the operand orders used so far
  node,       \* the caller's output slot
  ret,        \* the status returned
  err,        \* the caller's error message slot
  other       \* a second call whose steps interleave with this one's: its state
              \* while it is not the one running, Absent when there is none

vars == << tree, opt, json, buf, pc, _off, is_scalar, _buf, allocs, oob, jsn, joctx,
           heap, ub, orders, node, ret, err, other >>

\* the caller's output slot before the call writes it
NodeUnset == 0 - 1

NoErr == [ text |-> "", code |-> "", n |-> 0 ]

\* the machine the lexer and its callbacks work on
M == [ jsn |-> jsn, joctx |-> joctx, heap |-> heap, ub |-> ub, orders |-> orders ]

\* what reading byte i (from 0) of the caller's input gives: past the end,
\* whatever lies there
ReadByte(i) == IF i < Len(buf) THEN { buf[i + 1] } ELSE Byte

\* the state of a call that is not there
Absent ==
  [ tree |-> NoTree, opt |-> CompactOpt, json |-> << >>, buf |-> << >>, pc |-> "absent",
    _off |-> 0, is_scalar |-> FALSE, _buf |-> << >>, allocs |-> {}, oob |-> FALSE,
    jsn |-> NULL, joctx |-> NULL, heap |-> << >>, ub |-> "none", orders |-> {},
    node |-> NodeUnset, ret |-> "", err |-> NoErr ]

CallStart ==
  /\ _off = 0 /\ is_scalar = FALSE /\ _buf = << >> /\ allocs = {} /\ oob = FALSE
  /\ jsn = NULL /\ joctx = NULL /\ heap = << >> /\ ub = "none" /\ orders = {}
  /\ node = NodeUnset /\ ret = "" /\ err = NoErr

Init ==
  /\ \/ tree = NoTree /\ opt = CompactOpt /\ json = << >>
        /\ buf \in Texts /\ pc = "munch"
     \/ tree \in Trees /\ opt \in Opts /\ json \in Jsons
        /\ buf = << >> /\ pc = "serialize"
  /\ CallStart
  /\ other = Absent

\* SerializeNodeToJSON(tree, opt, &json); what the call has added to json
\* is then the input of the parse
Serialize ==
  /\ pc = "serialize"
  /\ json' = SerializeNodeToJSON(tree, opt, json)
  /\ buf' = SubSeq(json', Len(json) + 1, Len(json'))
  /\ pc' = "munch"
  /\ UNCHANGED << tree, opt, _off, is_scalar, _buf, allocs, oob, jsn, joctx,
                  heap, ub, orders, node, ret, err, other >>

\* one test of the munch loop: while (_IsAllowedWhitespace(_buf[_off]) && _off < _len)
Munch ==
  /\ pc = "munch"
  /\ \E c \in ReadByte(_off) :
       /\ oob' = (oob \/ _off >= Len(buf))
       /\ IF _IsAllowedWhitespace(c) /\ _off < Len(buf)
          THEN _off' = _off + 1 /\ pc' = "munch"
          ELSE _off' = _off /\ pc' = "wrap"
  /\ UNCHANGED << tree, opt, json, buf, is_scalar, _buf, allocs, jsn, joctx, heap, ub,
                  orders, node, ret, err, other >>

\* the scalar test without its length guard
IsScalarUnbounded(c) == "{" # c /\ "[" # c

\* is_scalar = ('{' != _buf[_off]) && ('[' != _buf[_off]) && _off < _len,
\* with c the byte read
IsScalar(c) == "{" # c /\ "[" # c /\ _off < Len(buf)

\* the scalar test and the synthetic buffer, then jsonsl_new and the context
Wrap ==
  /\ pc = "wrap"
  /\ \E c \in ReadByte(_off) :
       LET scalar == IsScalar(c)
       IN  /\ is_scalar' = scalar
           /\ _buf' = IF scalar
                      THEN << "[" >> \o SubSeq(buf, _off + 1, Len(buf)) \o << "]" >>
                      ELSE buf
           /\ allocs' = { "jsn", "joctx", "joctx->nodes" }
                        \cup (IF scalar THEN { "_buf" } ELSE {})
  /\ oob' = (oob \/ _off >= Len(buf))
  /\ jsn' = jsonsl_new(JSONSL_MAX_LEVELS)
  /\ joctx' = JoctxNew(JSONSL_MAX_LEVELS)
  /\ pc' = "feed"
  /\ UNCHANGED << tree, opt, json, buf, _off, heap, ub, orders, node, ret, err, other >>

\* jsonsl_feed(jsn, _buf, _len): one byte
FeedByte ==
  /\ pc = "feed"
  /\ ~jsn.stopfl
  /\ jsn.pos < Len(_buf)
  /\ \E m2 \in JsonslByte(M, _buf[jsn.pos + 1], _buf) :
       /\ jsn' = m2.jsn
       /\ joctx' = m2.joctx
       /\ heap' = m2.heap
       /\ ub' = m2.ub
       /\ orders' = m2.orders
       /\ pc' = IF m2.ub # "none" THEN "undefined" ELSE "feed"
  /\ UNCHANGED << tree, opt, json, buf, _off, is_scalar, _buf, allocs, oob, node, ret, err,
                  other >>

\* jsonsl_feed returns: the input is consumed or the lexer was stopped
FeedReturn ==
  /\ pc = "feed"
  /\ jsn.stopfl \/ jsn.pos >= Len(_buf)
  /\ pc' = "check"
  /\ UNCHANGED << tree, opt, json, buf, _off, is_scalar, _buf, allocs, oob, jsn, joctx,
                  heap, ub, orders, node, ret, err, other >>

Reverse(s) == [ i \in 1..Len(s) |-> s[Len(s) + 1 - i] ]

\* the message the checks after the feed choose, NoErr when they all pass
CheckMessage ==
  IF joctx.err # JSONSL_ERROR_SUCCESS
  THEN [ text |-> "ERR JSON lexer error %s at position %zd",
         code |-> joctx.err, n |-> joctx.errpos + 1 ]
  ELSE IF jsn.level # 0
  THEN [ text |-> "ERR JSON value incomplete - %u containers unterminated",
         code |-> "", n |-> jsn.level ]
  ELSE IF jsn.stack[1].nelem = 0
  THEN [ text |-> "ERR JSON value not found", code |-> "", n |-> 0 ]
  ELSE NoErr

\* label error: the message, the nodes of the stack freed from the top
Fail ==
  /\ CheckMessage # NoErr
  /\ err' = CheckMessage
  /\ heap' = FreeAll(heap, Reverse(joctx.nodes))
  /\ joctx' = [ joctx EXCEPT !.nodes = << >>, !.nlen = 0 ]
  /\ allocs' = allocs \ { "jsn", "joctx", "joctx->nodes" }
  /\ ret' = "JSONOBJECT_ERROR"
  /\ pc' = "done"
  /\ UNCHANGED << ub, node >>

\* Finalize
Finalize ==
  /\ CheckMessage = NoErr
  /\ IF joctx.nlen = 0
     THEN /\ ub' = "_popNode on an empty stack" /\ pc' = "undefined"
          /\ UNCHANGED << heap, joctx, node, ret, allocs >>
     ELSE LET p == _popNode(M)
          IN  /\ IF is_scalar
                 THEN IF HasType(M, joctx.nodes[1], "N_ARRAY")
                      THEN /\ node' = Node_ArrayItem(heap, joctx.nodes[1], 0, node)
                           /\ heap' = Node_Free(Node_ArraySet(heap, joctx.nodes[1], 0, NULL),
                                                p.ptr)
                           /\ ub' = ub /\ pc' = "done" /\ ret' = "JSONOBJECT_OK"
                           /\ allocs' = {}
                      ELSE /\ ub' = "Node_ArrayItem on a node that is no array"
                           /\ pc' = "undefined"
                           /\ UNCHANGED << heap, node, ret, allocs >>
                 ELSE /\ node' = p.ptr
                      /\ heap' = heap
                      /\ ub' = ub /\ pc' = "done" /\ ret' = "JSONOBJECT_OK"
                      /\ allocs' = {}
              /\ joctx' = IF pc' = "done" THEN p.m.joctx ELSE joctx
  /\ UNCHANGED err

\* the checks after the feed, and the return
Finish ==
  /\ pc = "check"
  /\ IF CheckMessage # NoErr THEN Fail ELSE Finalize
  /\ UNCHANGED << tree, opt, json, buf, _off, is_scalar, _buf, oob, jsn, orders, other >>

Next == Serialize \/ Munch \/ Wrap \/ FeedByte \/ FeedReturn \/ Finish

Spec == Init /\ [][Next]_vars


(***************************************************************************)
(* Two calls whose steps interleave.  Everything CreateNodeFromJSON and    *)
(* SerializeNodeToJSON work on is a local, a block the call allocates or   *)
(* an argument, so each call has the whole state above for itself; the two *)
(* lookup tables are file-scope constants.  One call runs at a time and    *)
(* the other waits in `other`.                                             *)
(***************************************************************************)
RECURSIVE DeepDicts(_)
\* k dictionaries, each opened as the value of the key of the one before
DeepDicts(k) ==
  IF k = 0 THEN << >> ELSE << "{", "\"", "a", "\"", ":" >> \o DeepDicts(k - 1)

\* the nesting whose pending pairs and dictionaries are one node more than
\* the node stack has slots, at a lexer depth the lexer still accepts
Deep == DeepDicts((JSONSL_MAX_LEVELS \div 2) + 1)

\* the texts of the interleaved calls
PairTexts == { << "7" >>, << "[", "7", "]" >>, << "\"", "a", "\"" >>, << "x" >>, Deep }

\* the state of the call that is running
Running ==
  [ tree |-> tree, opt |-> opt, json |-> json, buf |-> buf, pc |-> pc, _off |-> _off,
    is_scalar |-> is_scalar, _buf |-> _buf, allocs |-> allocs, oob |-> oob,
    jsn |-> jsn, joctx |-> joctx, heap |-> heap, ub |-> ub, orders |-> orders,
    node |-> node, ret |-> ret, err |-> err ]

\* the calls as they are entered
Entered ==
  { [ Absent EXCEPT !.buf = t, !.pc = "munch" ] : t \in PairTexts }
    \cup { [ Absent EXCEPT !.tree = Fixture, !.json = j, !.pc = "serialize" ] : j \in Jsons }

InitPair ==
  /\ other \in Entered
  /\ \E c \in Entered :
       /\ tree = c.tree /\ opt = c.opt /\ json = c.json /\ buf = c.buf /\ pc = c.pc
  /\ CallStart

\* the scheduler takes the running call off and puts the other one on
Switch ==
  /\ other.pc # "absent"
  /\ other' = Running
  /\ tree' = other.tree /\ opt' = other.opt /\ json' = other.json /\ buf' = other.buf
  /\ pc' = other.pc /\ _off' = other._off /\ is_scalar' = other.is_scalar
  /\ _buf' = other._buf /\ allocs' = other.allocs /\ oob' = other.oob
  /\ jsn' = other.jsn /\ joctx' = other.joctx /\ heap' = other.heap /\ ub' = other.ub
  /\ orders' = other.orders /\ node' = other.node /\ ret' = other.ret /\ err' = other.err

\* nodes[nlen++] = n on a full stack stores a pointer past the end of the
\* block calloc gave the call.  What lies there belongs to the allocator,
\* which serves every call: one of the outcomes is that the bytes belong to
\* a block of the other call.  Modelled for the other call's synthetic
\* buffer: a byte of it is replaced by a byte of the pointer (the high bytes
\* of a pointer are zero).
StrayStore ==
  /\ pc = "undefined" /\ ub = "nodes[] overflow"
  /\ "_buf" \in other.allocs
  /\ \E i \in 1..Len(other._buf) :
       /\ other._buf[i] # NUL
       /\ other' = [ other EXCEPT !._buf[i] = NUL ]
  /\ UNCHANGED << tree, opt, json, buf, pc, _off, is_scalar, _buf, allocs, oob, jsn, joctx,
                  heap, ub, orders, node, ret, err >>

NextPair == Serialize \/ Munch \/ Wrap \/ FeedByte \/ FeedReturn \/ Finish
              \/ Switch \/ StrayStore

SpecPair == InitPair /\ [][NextPair]_vars


(***************************************************************************)
(* The claims.                                                             *)
(***************************************************************************)
\* the call has returned
Returned == pc = "done"
Failed == pc = "done" /\ ret = "JSONOBJECT_ERROR"
Succeeded == pc = "done" /\ ret = "JSONOBJECT_OK"
\* the call has returned or has run into undefined behaviour
Ended == pc \in { "done", "undefined" }

\* every unsequenced read of nlen so far came out the way the code reads:
\* the pop before the other operand of a call, the left side of the
\* assignment before the pop
Sequenced == orders \subseteq { "args right to left", "left side first" }

\* C1: round trip.  The text SerializeNodeToJSON writes for a tree parses,
\* and the parse returns a tree structurally equal to the one serialized
\* (stated for the runs in which the operands are evaluated as the code
\* reads).
C1_RoundTrip ==
  (tree # NoTree /\ Ended /\ Sequenced) => (Succeeded /\ TreeOf(heap, node) = tree)

\* C2: parsing never partially succeeds.  When CreateNodeFromJSON returns
\* the error status the caller's node slot is not written, the node stack is
\* empty and every node created during the call has been freed exactly once.
C2_ErrorCleanup ==
  Failed => /\ node = NodeUnset
            /\ joctx.nodes = << >> /\ joctx.nlen = 0
            /\ \A i \in 1..Len(heap) : heap[i].frees = 1

\* C3: depth bound.  The node stack never holds more nodes than its
\* JSONSL_MAX_LEVELS slots and no push writes past its end.
C3_DepthBound ==
  (pc \in { "feed", "check", "done", "undefined" })
    => (joctx.nlen <= JSONSL_MAX_LEVELS /\ ub # "nodes[] overflow")

\* inputs that are one scalar token, with the value each stands for
ScalarCases ==
  { [ text |-> << "7" >>, value |-> TInt(IntVal(FALSE, << "7" >>)) ],
    [ text |-> << "-", "7" >>, value |-> TInt(IntVal(TRUE, << "7" >>)) ],
    [ text |-> << "7", ".", "5" >>, value |-> TNum(DblVal(FALSE, << "7", "5" >>, 0 - 1)) ],
    [ text |-> << "\"", "a", "\"" >>, value |-> TStr(<< "a" >>) ],
    [ text |-> << "t", "r", "u", "e" >>, value |-> TBool(TRUE) ] }

LeadingWhitespace == { << >>, << " " >>, << "\t", "\n", "\r" >>, << " ", " " >> }

\* C4: bare top-level scalars.  An input that is one string, number or
\* boolean token after any leading whitespace parses, and the node returned
\* is the value of the token.
C4_BareScalar ==
  \A k \in ScalarCases : \A w \in LeadingWhitespace :
    (tree = NoTree /\ buf = w \o k.text /\ Ended)
      => (Succeeded /\ TreeOf(heap, node) = k.value)

\* C5: scalar-wrap strictness.  A successful parse of a scalar-wrapped input
\* leaves the synthetic array (the first node created) with exactly one
\* element, the one returned (stated for the runs in which the operands are
\* evaluated as the code reads).
C5_WrapStrict ==
  (Succeeded /\ is_scalar /\ Sequenced) => Len(heap[1].kids) = 1

\* the nodes reachable from node n, n included
RECURSIVE ReachableFrom(_, _)
ReachableFrom(seen, todo) ==
  IF todo = {} THEN seen
  ELSE LET n == CHOOSE x \in todo : TRUE
           new == { heap[n].kids[i] : i \in 1..Len(heap[n].kids) } \ (seen \cup { NULL, n })
       IN  ReachableFrom(seen \cup { n }, (todo \ { n }) \cup new)

\* the slots (parent, index) that hold node n
OwnersOf(n, parents) ==
  { << q, i >> \in parents \X (1..Len(heap)) :
      i <= Len(heap[q].kids) /\ heap[q].kids[i] = n }

\* C6: termination state.  When the feed ends with no error, level 0 and a
\* root element, the node stack holds exactly one node, the root container
\* (the first node created), and every other live node is held by exactly one
\* slot of a node reachable from it.
C6_TerminationState ==
  (pc = "check" /\ CheckMessage = NoErr)
    => /\ joctx.nlen = 1 /\ joctx.nodes = << 1 >>
       /\ \A n \in 2..Len(heap) :
            heap[n].frees = 0 => Cardinality(OwnersOf(n, ReachableFrom({}, { 1 }))) = 1

\* the objects and arrays of the caller's input the lexer holds open
OpenContainers ==
  Cardinality({ i \in 2..(jsn.level + 1) : jsn.stack[i].type \in { "OBJECT", "LIST" } })
  - (IF is_scalar THEN 1 ELSE 0)

\* C7: unterminated-container count.  When the input ends with no lexical
\* error while N >= 1 of its objects and arrays are open, the call fails with
\* "value incomplete - N containers unterminated".
C7_UnterminatedCount ==
  (Returned /\ joctx.err = JSONSL_ERROR_SUCCESS /\ OpenContainers >= 1)
    => /\ Failed
       /\ err.text = "ERR JSON value incomplete - %u containers unterminated"
       /\ err.n = OpenContainers

\* the 1-based index in the caller's input of the byte the lexer was at when
\* it stopped
DetectedAt == IF is_scalar THEN (jsn.pos - 1) + _off + 1 ELSE jsn.pos + 1

\* C8: lexical error position.  The position of a "lexer error" message is
\* the 1-based index, in the caller's input, of the byte at which the error
\* was detected.
C8_ErrorPosition ==
  (Failed /\ err.text = "ERR JSON lexer error %s at position %zd") => err.n = DetectedAt

\* an input of whitespace only, the empty one included
AllWhitespace(text) == \A i \in 1..Len(text) : _IsAllowedWhitespace(text[i])

\* C9: empty input.  An input of length 0 or of tab, LF, CR and space bytes
\* only is not scalar-wrapped, creates no node, and the call fails with
\* "ERR JSON value not found".
C9_EmptyInput ==
  (tree = NoTree /\ AllWhitespace(buf))
    => /\ pc # "undefined"
       /\ ~is_scalar /\ heap = << >>
       /\ pc \in { "feed", "check", "done" } => _buf = buf
       /\ pc = "done" => (Failed /\ err.text = "ERR JSON value not found"
                          /\ node = NodeUnset)

C9_Witness ==
  /\ pc = "done" /\ buf = << " ", "\t", "\n", "\r" >>
  /\ err.text = "ERR JSON value not found" /\ oob

\* the numeric token the lexer is in, when the next byte ends it
NumericTokenEnds ==
  /\ pc = "feed" /\ ~jsn.stopfl /\ jsn.pos < Len(_buf)
  /\ jsn.stack[jsn.level + 1].type = "SPECIAL"
  /\ _buf[jsn.stack[jsn.level + 1].pos_begin + 1] \in Digit \cup { "-" }
  /\ _buf[jsn.pos] \in Digit
  /\ IsSpecialEnd(_buf[jsn.pos + 1])

NumericToken ==
  SubSeq(_buf, jsn.stack[jsn.level + 1].pos_begin + 1, jsn.pos)

\* the decimal value of a token of an optional minus and digits
DecimalOf(tok) ==
  IF Head(tok) = "-" THEN IntVal(TRUE, Tail(tok)) ELSE IntVal(FALSE, tok)

\* -2^63 <= v <= 2^63 - 1
InInt64(v) ==
  IF v.neg THEN ~MagLess(LLONG_MIN_MAG, v.mag) ELSE ~MagLess(LLONG_MAX_MAG, v.mag)

\* what the byte that ends a numeric token does, by the flags of the token
C10_Step ==
  NumericTokenEnds =>
    IF jsn.stack[jsn.level + 1].special_flags \cap { "FLOAT", "EXPONENT" } = {}
    THEN IF InInt64(DecimalOf(NumericToken))
         THEN /\ Len(heap') = Len(heap) + 1
              /\ heap'[Len(heap')].type = "N_INTEGER"
              /\ heap'[Len(heap')].intval = DecimalOf(NumericToken)
         ELSE /\ joctx'.err = "INVALID_NUMBER"
              /\ heap' = heap
              /\ joctx'.nodes = joctx.nodes /\ joctx'.nlen = joctx.nlen
    ELSE \A i \in (Len(heap) + 1)..Len(heap') : heap'[i].type # "N_INTEGER"

\* C10: integer classification and boundary.  A numeric token with neither a
\* fraction nor an exponent yields an Integer node holding its decimal value
\* when that lies in [-2^63, 2^63 - 1] and INVALID_NUMBER with no node pushed
\* when it does not; a token with a fraction or an exponent yields no Integer
\* node.
C10_IntegerClassification == [][C10_Step]_vars

C10_Witness ==
  /\ Succeeded /\ buf = BigDigits \o << "7" >>
  /\ node # NULL /\ node # NodeUnset /\ heap[node].type = "N_INTEGER"
  /\ heap[node].intval.mag = LLONG_MAX_MAG

\* C11: scalar-wrap buffer release.  When CreateNodeFromJSON has returned, on
\* whatever path, the synthetic buffer allocated for a bare scalar is no
\* longer allocated (stated for the runs in which the operands are evaluated
\* as the code reads).
C11_WrapBufferRelease ==
  (Returned /\ Sequenced) => "_buf" \notin allocs

\* the three strings of the options, NULL read as empty
StringsOf(o) ==
  [ indent |-> IF o.indentstr = << >> THEN << >> ELSE o.indentstr[1],
    newline |-> IF o.newlinestr = << >> THEN << >> ELSE o.newlinestr[1],
    space |-> IF o.spacestr = << >> THEN << >> ELSE o.spacestr[1] ]

RECURSIVE Layout(_, _, _)
RECURSIVE LayoutRest(_, _, _, _)
\* the siblings from the i-th on, each after ',' newline and d copies of indent
LayoutRest(kids, i, s, d) ==
  IF i > Len(kids) THEN << >>
  ELSE << "," >> \o s.newline \o Repeat(s.indent, d) \o Layout(kids[i], s, d)
       \o LayoutRest(kids, i + 1, s, d)

\* the text the layout rules define for tree n met at depth d: the tokens
\* (scalars and quoted keys, as the serializer writes them) and what the
\* rules put between them
Layout(n, s, d) ==
  IF n.type = "N_KEYVAL"
  THEN << "\"" >> \o CString(n.key) \o << "\"", ":" >> \o s.space \o Layout(n.val, s, d)
  ELSE IF n.type \in { "N_DICT", "N_ARRAY" }
  THEN LET kids == IF n.type = "N_DICT" THEN n.entries ELSE n.elems
       IN  << IF n.type = "N_DICT" THEN "{" ELSE "[" >>
           \o (IF kids = << >> THEN << >>
               ELSE s.newline \o Repeat(s.indent, d + 1) \o Layout(kids[1], s, d + 1)
                    \o LayoutRest(kids, 2, s, d + 1) \o s.newline)
           \o Repeat(s.indent, d)
           \o << IF n.type = "N_DICT" THEN "}" ELSE "]" >>
  ELSE Node_Serializer(n, NewBuilder(NullOpt, << >>)).buf

\* the text {LF  "a": [LF    1,LF    2LF  ]LF}
FixtureText ==
  << "{", "\n", " ", " ", "\"", "a", "\"", ":", " ", "[", "\n",
     " ", " ", " ", " ", "1", ",", "\n", " ", " ", " ", " ", "2", "\n",
     " ", " ", "]", "\n", "}" >>

\* C12: pretty-print layout.  What SerializeNodeToJSON has written for a tree
\* is the text the layout rules define for it under the three strings of the
\* options; the depth counter never went below 0 and is 0 after the walk; the
\* fixture {"a":[1,2]} with two spaces, LF and one space is rendered as
\* FixtureText.
C12_PrettyLayout ==
  (tree # NoTree /\ pc # "serialize")
    => /\ buf = Layout(tree, StringsOf(opt), 0)
       /\ Node_Serializer(tree, NewBuilder(opt, json)).depth = 0
       /\ Node_Serializer(tree, NewBuilder(opt, json)).low = 0
       /\ (tree = Fixture /\ opt = PrettyOpt) => buf = FixtureText

C12_Witness ==
  /\ tree = Fixture /\ opt = PrettyOpt /\ pc = "munch" /\ buf = FixtureText

\* the letter of the two-character escape of a byte that has one
EscapeLetter(c) ==
  CASE c = "\"" -> "\"" [] c = "\\" -> "\\" [] c = "/" -> "/" [] c = BS -> "b"
    [] c = "\f" -> "f" [] c = "\n" -> "n" [] c = "\r" -> "r" [] c = "\t" -> "t"

\* the rendering the escaping rule gives one byte
EscapeRule(c) ==
  IF c \in { "\"", "\\", "/", BS, "\f", "\n", "\r", "\t" }
  THEN << "\\", EscapeLetter(c) >>
  ELSE IF CodeOf[c] > 31 /\ CodeOf[c] < 127
  THEN << c >>
  ELSE << "\\", "u", "0", "0",
          HexDigits[(CodeOf[c] \div 16) + 1], HexDigits[(CodeOf[c] % 16) + 1] >>

RECURSIVE EscapeRuleAll(_)
EscapeRuleAll(data) ==
  IF data = << >> THEN << >> ELSE EscapeRule(Head(data)) \o EscapeRuleAll(Tail(data))

\* C13: string escaping.  What SerializeNodeToJSON writes for a String node
\* is a quote, the rendering of each of its bytes by the escaping rule, and a
\* quote; byte 0x01 gives \u0001 and a newline byte gives backslash n.
C13_StringEscaping ==
  (tree.type = "N_STRING" /\ pc # "serialize")
    => /\ buf = << "\"" >> \o EscapeRuleAll(tree.strval) \o << "\"" >>
       /\ tree.strval = << SOH >>
            => buf = << "\"", "\\", "u", "0", "0", "0", "1", "\"" >>
       /\ tree.strval = << "\n" >> => buf = << "\"", "\\", "n", "\"" >>

C13_Witness ==
  /\ tree = TStr(<< "a", "\"", "\\", "\n", SOH >>) /\ pc = "munch"
  /\ buf = << "\"", "a", "\\", "\"", "\\", "\\", "\\", "n",
              "\\", "u", "0", "0", "0", "1", "\"" >>

Int7 == TInt(IntVal(FALSE, << "7" >>))
Int8 == TInt(IntVal(FALSE, << "8" >>))

\* array texts with the array each stands for, element by element
ArrayCases ==
  { [ text |-> << "[", "[", "]", "]" >>, value |-> TArr(<< TArr(<< >>) >>) ],
    [ text |-> Array78, value |-> TArr(<< Int7, Int8 >>) ],
    [ text |-> Array877, value |-> TArr(<< Int8, Int7, Int7 >>) ],
    [ text |-> ArrayNullTrueA, value |-> TArr(<< TNull, TBool(TRUE), TStr(<< "a" >>) >>) ],
    [ text |-> ArrayNested, value |-> TArr(<< TArr(<< >>), Int7, TDict(<< >>) >>) ],
    [ text |-> ArrayDeep,
      value |-> TArr(<< Int7, TArr(<< Int8, TNull >>), TArr(<< >>) >>) ],
    [ text |-> ArrayDict,
      value |-> TArr(<< TDict(<< TKeyVal(<< "a" >>, Int7) >>), Int8 >>) ] }

\* C14: array order.  After a successful parse of an array text the i-th
\* element of the Array node is the value of the i-th element of the text:
\* none dropped, duplicated or reordered.
C14_ArrayOrder ==
  \A k \in ArrayCases :
    (tree = NoTree /\ buf = k.text /\ Succeeded) => TreeOf(heap, node) = k.value

NullText == << "n", "u", "l", "l" >>

\* texts with a null literal, and trees with an absent slot
NullCases ==
  { [ text |-> NullText, value |-> TNull ],
    [ text |-> << "[" >> \o NullText \o << "]" >>, value |-> TArr(<< TNull >>) ],
    [ text |-> << "{", "\"", "a", "\"", ":" >> \o NullText \o << "}" >>,
      value |-> TDict(<< TKeyVal(<< "a" >>, TNull) >>) ] }

\* C15: null representation.  A null literal of the input parses to an absent
\* slot (the NULL pointer) in its array element or dict value position, with
\* no undefined behaviour on the way, and the serializer writes every absent
\* slot, the absent root included, as the four bytes null.
C15_NullRepresentation ==
  \A k \in NullCases :
    /\ (tree = NoTree /\ buf = k.text /\ Ended)
         => (Succeeded /\ TreeOf(heap, node) = k.value)
    /\ (tree = k.value /\ opt = CompactOpt /\ pc # "serialize") => buf = k.text

\* what the step of SerializeNodeToJSON does to the caller's data
C16_Step ==
  pc = "serialize"
    => /\ pc' = "munch" /\ ub' = "none"
       /\ tree' = tree /\ opt' = opt
       /\ Len(json') >= Len(json) /\ SubSeq(json', 1, Len(json)) = json
       /\ json' = json \o Layout(tree, StringsOf(opt), 0)

\* C16: serialization is total and append-only.  For every tree and option
\* set (strings NULL or empty included) the step of SerializeNodeToJSON ends
\* with no error outcome, leaves the tree and the options as they were, and
\* leaves in the caller's buffer its previous contents followed by the
\* rendered text.
C16_AppendOnly == [][C16_Step]_vars

C16_Witness ==
  /\ pc = "munch" /\ tree = Fixture /\ opt = NullOpt
  /\ json = << "x" >> \o buf /\ Len(buf) = 11

\* what a call of the interleaved model returns when it runs alone: the
\* texts with status and value, and for a tree the text appended
PairCases ==
  { [ text |-> << "7" >>, ret |-> "JSONOBJECT_OK", value |-> Int7 ],
    [ text |-> << "[", "7", "]" >>, ret |-> "JSONOBJECT_OK", value |-> TArr(<< Int7 >>) ],
    [ text |-> << "\"", "a", "\"" >>, ret |-> "JSONOBJECT_OK", value |-> TStr(<< "a" >>) ],
    [ text |-> << "x" >>, ret |-> "JSONOBJECT_ERROR", value |-> TNull ] }

\* call c, once it has returned with its operands evaluated in the
\* intended order, has the result it has alone
AsAlone(c) ==
  /\ (c.tree # NoTree /\ c.pc \notin { "serialize", "absent" })
       => /\ c.json \in { j \o Layout(c.tree, StringsOf(c.opt), 0) : j \in Jsons }
          /\ c.buf = Layout(c.tree, StringsOf(c.opt), 0)
  /\ \A k \in PairCases :
       (/\ c.tree = NoTree /\ c.buf = k.text /\ c.pc = "done"
        /\ c.orders \subseteq { "args right to left", "left side first" })
         => /\ c.ret = k.ret
            /\ k.ret = "JSONOBJECT_OK" => TreeOf(c.heap, c.node) = k.value
            /\ k.ret = "JSONOBJECT_ERROR" => c.node = NodeUnset

AttachCases ==
  { [ text |-> << "[", "7", "," >>, root |-> TArr(<< Int7 >>) ],
    [ text |-> << "[", "[", "]" >>, root |-> TArr(<< TArr(<< >>) >>) ],
    [ text |-> << "{", "\"", "a", "\"", ":", "7", "}" >>,
      root |-> TDict(<< TKeyVal(<< "a" >>, Int7) >>) ],
    [ text |-> << "{", "\"", "a", "\"", ":", "n", "u", "l", "l", "}" >>,
      root |-> TDict(<< TKeyVal(<< "a" >>, TNull) >>) ],
    [ text |-> << "{", "\"", "a", "\"", ":", "[", "]" >>,
      root |-> TDict(<< TKeyVal(<< "a" >>, TArr(<< >>)) >>) ],
    [ text |-> << "{", "\"", "a", "\"", ":", "{", "}" >>,
      root |-> TDict(<< TKeyVal(<< "a" >>, TDict(<< >>)) >>) ] }

\* C18: key/value attachment.  A value popped over a pending key becomes the
\* value of that key and the pair goes into the dict beneath the key; a value
\* popped over an array is appended to that array; the value and the pair
\* are off the stack afterwards.  No node is ever attached to itself and no
\* attach call is handed a node of the wrong kind.
C18_Attachment ==
  /\ pc \in { "feed", "check", "undefined" }
       => /\ \A n \in 1..Len(heap) :
               \A i \in 1..Len(heap[n].kids) : heap[n].kids[i] # n
          /\ ub \notin { "Node_ArrayAppend on a node that is no array",
                         "Node_DictSetKeyVal on a node that is no dict or no pair",
                         "kvval.val written through a node that is no pair" }
  /\ \A k \in AttachCases :
       (tree = NoTree /\ buf = k.text /\ pc \in { "check", "undefined" })
         => /\ pc = "check"
            /\ joctx.nodes = << 1 >> /\ joctx.nlen = 1
            /\ TreeOf(heap, 1) = k.root

\* the codes popCallback hands to errorCallback: the numeric branches' and
\* those of jsonsl_util_unescape
CallbackErrors ==
  { "INVALID_NUMBER", "ESCAPE_INVALID", "UESCAPE_TOOSHORT", "PERCENT_BADHEX",
    "INVALID_CODEPOINT" }

\* an error has been recorded in the context
ErrorRecorded == pc \in { "feed", "check" } /\ joctx.err # JSONSL_ERROR_SUCCESS

\* what a step does once an error has been recorded, and what the step
\* that records it leaves behind
C19_Step ==
  /\ (ErrorRecorded /\ pc = "feed")
       => (heap' = heap /\ joctx' = joctx /\ jsn' = jsn /\ pc' = "check")
  /\ (ErrorRecorded /\ pc = "check")
       => /\ pc' = "done" /\ ret' = "JSONOBJECT_ERROR" /\ node' = node
          /\ err'.code = joctx.err /\ err'.n = joctx.errpos + 1
  /\ (pc = "feed" /\ ~ErrorRecorded /\ pc' = "feed"
      /\ joctx'.err # JSONSL_ERROR_SUCCESS)
       => /\ jsn'.stopfl
          /\ joctx'.errpos <= jsn'.pos
          /\ joctx'.err \in CallbackErrors
               => (heap' = heap /\ joctx'.nodes = joctx.nodes)

\* C19: stop on first error.  Once an error is recorded in the context the
\* lexer is stopped: no step creates, pushes, pops or attaches a node or
\* moves the lexer until the checks after the feed, and the message carries
\* the code and the position recorded.
C19_StopOnFirstError == [][C19_Step]_vars

C19_Witness ==
  /\ Failed /\ buf = BigDigits \o << "8", "," >>
  /\ err.code = "INVALID_NUMBER" /\ err.n = joctx.errpos + 1
  /\ jsn.stopfl /\ jsn.pos < Len(_buf)
  /\ Len(heap) = 1

\* the dict of one entry with key k and a null value
OneKey(k) == TDict(<< TKeyVal(k, TNull) >>)

\* C20: key rendering.  The key of a dict entry is written between quotes,
\* every byte of it by the escaping rule of String values, and the text
\* parses back to a dict with the same key.
C20_KeyRendering ==
  \A k \in Keys :
    (tree = OneKey(k) /\ opt = CompactOpt /\ pc # "serialize")
      => /\ buf = << "{", "\"" >> \o EscapeRuleAll(k) \o << "\"", ":" >>
                    \o NullText \o << "}" >>
         /\ (Ended /\ Sequenced) => (Succeeded /\ TreeOf(heap, node) = tree)


\* C21: input bounds.  The whitespace-skipping and scalar-detection steps
\* read only the bytes 0..len-1 of the caller's input, and the synthetic
\* buffer of a wrapped scalar has exactly the len - off + 2 bytes written:
\* the bracket, the input from off on, the bracket.
C21_InputBounds ==
  /\ ~oob
  /\ (pc \notin { "serialize", "munch", "wrap" } /\ is_scalar)
       => /\ Len(_buf) = (Len(buf) - _off) + 2
          /\ _buf[1] = "[" /\ _buf[Len(_buf)] = "]"
          /\ SubSeq(_buf, 2, Len(_buf) - 1) = SubSeq(buf, _off + 1, Len(buf))

=============================================================================
